---------------------------- MODULE Spec2Model ----------------------------
(***************************************************************************)
(* BTHome environmental beacon and CTS time application.                   *)
(*                                                                         *)
(* Four applications of the repository are modelled, one per value of app: *)
(*   "three"    sensor_handler.c, first design: three payloads published   *)
(*              one after the other through legacy advertising             *)
(*   "combined" sensor_handler.c, second design: one 19 byte payload       *)
(*              published through an extended advertising set              *)
(*   "simple"   the bare main loop with two payloads                       *)
(*   "time"     the CTS time application (connection callbacks, adv_work)  *)
(*                                                                         *)
(* Time advances in ticks of TickMs milliseconds.  The kernel's work queue *)
(* (k_work, k_work_delayable), the sensor driver and the radio are the     *)
(* environment: the sensor returns any sample of Samples, a call that can  *)
(* fail fails or succeeds nondeterministically.                            *)
(***************************************************************************)
EXTENDS Integers, Sequences, FiniteSets, TLC

(***************************************************************************)
(* C integer arithmetic                                                    *)
(***************************************************************************)

\* C's / on int: truncation toward zero (b > 0)
CDiv(a, b) == IF a >= 0 THEN a \div b ELSE -((-a) \div b)

\* C's % on int: the remainder has the sign of the dividend
CMod(a, b) == a - b * CDiv(a, b)

\* conversion to int16_t: the value modulo 2^16, as a signed number
ToInt16(x) == LET m == x % 65536 IN IF m >= 32768 THEN m - 65536 ELSE m

\* conversion to uint16_t
ToUint16(x) == x % 65536

\* (x >> n) on a promoted int: arithmetic shift
ShiftRight(x, n) == x \div (2 ^ n)

\* (x & 0xFF), stored into a uint8_t
AndFF(x) == x % 256

(***************************************************************************)
(* Payload layout                                                          *)
(***************************************************************************)

\* BT_UUID_16_ENCODE(0xFCD2): low byte, high byte
SERVICE_UUID_ENC == <<210, 252>>

IDX_TEMPL == 4
IDX_TEMPH == 5
IDX_HUMIDL == 7
IDX_HUMIDH == 8
IDX_PRESS_LOW == 4
IDX_PRESS_MID == 5
IDX_PRESS_HIGH == 6
IDX_VOC_LOW == 4
IDX_VOC_HIGH == 5
IDX_CO2_HIGH == 7
IDX_CO2_LOW == 8

IDX_TEMP_L == 4
IDX_TEMP_H == 5
IDX_HUMID_L == 7
IDX_HUMID_H == 8
\* an off-by-one slip: the pressure low byte lands on the pressure tag
IDX_PRESS_L_on_tag == 10 - 1
IDX_PRESS_L == 10
IDX_PRESS_M == 11
IDX_PRESS_H == 12
IDX_VOC_L == 14
IDX_VOC_H == 15
IDX_CO2_L == 17
IDX_CO2_H == 18

\* buf[idx] of a C array (0-based) held as a sequence (1-based)
At(buf, idx) == buf[idx + 1]

\* buf[idx] = v
Put(buf, idx, v) == [buf EXCEPT ![idx + 1] = v]

\* static initialisers of the payload buffers
Init_temp_hum == SERVICE_UUID_ENC \o <<64, 2, 0, 0, 3, 0, 0>>
Init_press == SERVICE_UUID_ENC \o <<64, 4, 0, 0, 0>>
Init_voc_co2 == SERVICE_UUID_ENC \o <<64, 19, 0, 0, 18, 0, 0>>
Init_combined ==
    SERVICE_UUID_ENC \o <<64, 2, 0, 0, 3, 0, 0, 4, 0, 0, 0, 19, 0, 0, 18, 0, 0>>
Init_simple_temp_hum == SERVICE_UUID_ENC \o <<64, 2, 196, 0, 3, 191, 19>>
Init_simple_press_gas == SERVICE_UUID_ENC \o <<64, 4, 19, 138, 1>>

(***************************************************************************)
(* Fixed-point encoders                                                    *)
(***************************************************************************)

\* a slip in the divisor: the fraction taken in thousandths
temp_scaled_milli(v) == ToInt16(v.val1 * 100 + CDiv(v.val2, 1000))

\* int16_t temp_scaled = temp.val1 * 100 + temp.val2 / 10000;
temp_scaled(v) == ToInt16(v.val1 * 100 + CDiv(v.val2, 10000))

\* int16_t humidity_scaled = humidity.val1 * 100 + humidity.val2 / 10000;
humidity_scaled(v) == ToInt16(v.val1 * 100 + CDiv(v.val2, 10000))

\* a slip that drops the second truncation: the remainder is not divided by 10
pressure_scaled_untruncated(v) ==
    CDiv(v.val1, 100) * 100 + (CMod(v.val1, 100) + CDiv(v.val2, 1000000))

\* int32_t pressure_scaled of the work-handler designs
pressure_scaled(v) ==
    CDiv(v.val1, 100) * 100 + CDiv(CMod(v.val1, 100) + CDiv(v.val2, 1000000), 10)

\* int32_t pressure_scaled of the simple loop
pressure_scaled_simple(v) == v.val1 * 1000 + CDiv(v.val2, 10000)

\* a slip that saturates the value at the limits of uint16_t
voc_scaled_clamped(v) ==
    LET x == v.val1 * 100 + CDiv(v.val2, 10000)
    IN  IF x > 65535 THEN 65535 ELSE IF x < 0 THEN 0 ELSE x

\* uint16_t voc_scaled = voc.val1 * 100 + voc.val2 / 10000;
voc_scaled(v) == ToUint16(v.val1 * 100 + CDiv(v.val2, 10000))

\* a slip that rounds the fraction to the nearest unit
co2_scaled_rounded(v) == ToUint16(v.val1 + CDiv(v.val2 + 500000, 1000000))

\* uint16_t co2_scaled = co2.val1 + (co2.val2 / 1000000);
co2_scaled(v) == ToUint16(v.val1 + CDiv(v.val2, 1000000))

\* three-payload design and simple loop: temperature and humidity
EncodeTempHum(buf, s) ==
    LET t == temp_scaled(s.temp)
        h == humidity_scaled(s.humidity)
        b1 == Put(buf, IDX_TEMPH, AndFF(ShiftRight(t, 8)))
        b2 == Put(b1, IDX_TEMPL, AndFF(t))
        b3 == Put(b2, IDX_HUMIDH, AndFF(ShiftRight(h, 8)))
    IN  Put(b3, IDX_HUMIDL, AndFF(h))

\* three-payload design: pressure
EncodePress(buf, s) ==
    LET p == pressure_scaled(s.press)
        b1 == Put(buf, IDX_PRESS_LOW, AndFF(p))
        b2 == Put(b1, IDX_PRESS_MID, AndFF(ShiftRight(p, 8)))
    IN  Put(b2, IDX_PRESS_HIGH, AndFF(ShiftRight(p, 16)))

\* simple loop: pressure
EncodePressGas(buf, s) ==
    LET p == pressure_scaled_simple(s.press)
        b1 == Put(buf, IDX_PRESS_LOW, AndFF(p))
        b2 == Put(b1, IDX_PRESS_MID, AndFF(ShiftRight(p, 8)))
    IN  Put(b2, IDX_PRESS_HIGH, AndFF(ShiftRight(p, 16)))

\* three-payload design: VOC and CO2
EncodeVocCo2(buf, s) ==
    LET v == voc_scaled(s.voc)
        c == co2_scaled(s.co2)
        b1 == Put(buf, IDX_VOC_LOW, AndFF(v))
        b2 == Put(b1, IDX_VOC_HIGH, AndFF(ShiftRight(v, 8)))
        b3 == Put(b2, IDX_CO2_HIGH, AndFF(ShiftRight(c, 8)))
    IN  Put(b3, IDX_CO2_LOW, AndFF(c))

\* combined design: all five fields
EncodeCombined(buf, s) ==
    LET t == temp_scaled(s.temp)
        h == humidity_scaled(s.humidity)
        p == pressure_scaled(s.press)
        v == voc_scaled(s.voc)
        c == co2_scaled(s.co2)
        b1 == Put(buf, IDX_TEMP_H, AndFF(ShiftRight(t, 8)))
        b2 == Put(b1, IDX_TEMP_L, AndFF(t))
        b3 == Put(b2, IDX_HUMID_H, AndFF(ShiftRight(h, 8)))
        b4 == Put(b3, IDX_HUMID_L, AndFF(h))
        b5 == Put(b4, IDX_PRESS_L, AndFF(p))
        b6 == Put(b5, IDX_PRESS_M, AndFF(ShiftRight(p, 8)))
        b7 == Put(b6, IDX_PRESS_H, AndFF(ShiftRight(p, 16)))
        b8 == Put(b7, IDX_VOC_L, AndFF(v))
        b9 == Put(b8, IDX_VOC_H, AndFF(ShiftRight(v, 8)))
        b10 == Put(b9, IDX_CO2_H, AndFF(ShiftRight(c, 8)))
    IN  Put(b10, IDX_CO2_L, AndFF(c))

\* a slip that forgets the IAQ sentinel
InvalidReading_no_iaq(s) == s.co2.val1 < 0 \/ s.voc.val1 < 0

\* if (iaq.val1 == 0 || co2.val1 < 0 || voc.val1 < 0) goto reschedule;
InvalidReading(s) == s.iaq.val1 = 0 \/ s.co2.val1 < 0 \/ s.voc.val1 < 0


(***************************************************************************)
(* Advertising data                                                        *)
(***************************************************************************)

\* CONFIG_BT_DEVICE_NAME="BTHome", as character codes
CONFIG_BT_DEVICE_NAME == <<66, 84, 72, 111, 109, 101>>

\* BT_AD_DATA_LEN_MAX; CONFIG_BT_CTLR_ADV_DATA_LEN_MAX is not set by prj.conf
BT_AD_DATA_LEN_MAX == 31

\* maximum advertising data length of a legacy advertising PDU
LEGACY_AD_LEN_MAX == 31

\* one AD element on air: length byte, type byte, data
AdElemLen(data_len) == 2 + data_len

\* { BT_DATA_BYTES(BT_DATA_FLAGS, ...), BT_DATA(BT_DATA_NAME_COMPLETE, ...),
\*   BT_DATA(BT_DATA_SVC_DATA16, service_data, sizeof(service_data)) }
AdLen(service_data) ==
    AdElemLen(1) + AdElemLen(Len(CONFIG_BT_DEVICE_NAME)) + AdElemLen(Len(service_data))

(***************************************************************************)
(* Time                                                                    *)
(***************************************************************************)

\* SENSOR_WORK_DELAY K_SECONDS(3), in milliseconds
SENSOR_WORK_DELAY_MS == 3000

\* k_sleep(K_MSEC(BT_GAP_ADV_SLOW_INT_MIN)), BT_GAP_ADV_SLOW_INT_MIN = 0x0640
DWELL_MS == 1600

RECURSIVE Gcd(_, _)
Gcd(a, b) == IF b = 0 THEN a ELSE Gcd(b, a % b)

\* one tick of model time
TickMs == Gcd(SENSOR_WORK_DELAY_MS, DWELL_MS)

Delay == SENSOR_WORK_DELAY_MS \div TickMs
Dwell == DWELL_MS \div TickMs

(***************************************************************************)
(* Work queue primitives of the kernel                                     *)
(***************************************************************************)

\* a k_work_delayable: timer = -1 when no timeout is armed
IdleWork == [timer |-> -1, queued |-> FALSE, running |-> FALSE]

\* pending: a timeout is armed or the item waits in the queue
WorkPending(w) == w.timer >= 0 \/ w.queued

\* a slip that arms the timeout whatever the state of the item, as
\* k_work_reschedule does for its timeout, without cancelling what is queued
k_work_schedule_rearm(w, delay) ==
    IF delay = 0 THEN [w EXCEPT !.queued = TRUE]
    ELSE [w EXCEPT !.timer = delay]

\* k_work_schedule(&w, delay): no effect on an already scheduled or queued
\* item; a running item that is neither may be scheduled again
k_work_schedule(w, delay) ==
    IF WorkPending(w) THEN w
    ELSE IF delay = 0 THEN [w EXCEPT !.queued = TRUE]
    ELSE [w EXCEPT !.timer = delay]

\* a slip that returns from the handler without re-arming
reschedule_skipped(w) == w

\* reschedule: k_work_schedule(&sensor_advertise_work, SENSOR_WORK_DELAY);
reschedule(w) == k_work_schedule(w, Delay)

\* k_work_submit(&w) of a plain k_work: queued unless already queued
k_work_submit(w) == [w EXCEPT !.queued = TRUE]

(***************************************************************************)
(* Sensor samples                                                          *)
(***************************************************************************)

SV(i, f) == [val1 |-> i, val2 |-> f]

TempVals == {SV(22, 500000), SV(0, 9999), SV(-5, 0), SV(-5, -500000), SV(400, 0)}
HumVals == {SV(55, 0), SV(99, 999999)}
PressVals == {SV(1013, 250000), SV(101325, 999999), SV(99, 0), SV(-100, 0)}
\* a pressure whose scaled value needs more than 24 bits in the work-handler
\* designs (in the simple loop val1 * 1000 would leave the int32 range)
PressValsWide == {SV(16777300, 0)}
IaqVals == {SV(50, 0), SV(0, 0)}
Co2Vals == {SV(450, 0), SV(65535, 999999), SV(0, 999999), SV(-1, 0)}
VocVals == {SV(10, 0), SV(655, 359999), SV(656, 0), SV(-1, 0)}

\* the reading of the end-to-end example
BaseSample ==
    [temp |-> SV(22, 500000), press |-> SV(1013, 250000), humidity |-> SV(55, 0),
     iaq |-> SV(50, 0), co2 |-> SV(450, 0), voc |-> SV(10, 0)]

\* the samples the sensor may return: the base reading with one channel varied
Samples ==
    {[BaseSample EXCEPT !.temp = v] : v \in TempVals}
        \cup {[BaseSample EXCEPT !.humidity = v] : v \in HumVals}
        \cup {[BaseSample EXCEPT !.press = v] : v \in PressVals \cup PressValsWide}
        \cup {[BaseSample EXCEPT !.iaq = v] : v \in IaqVals}
        \cup {[BaseSample EXCEPT !.co2 = v] : v \in Co2Vals}
        \cup {[BaseSample EXCEPT !.voc = v] : v \in VocVals}

\* the channels the simple loop encodes; gas resistance is read and only printed
SimpleSamples ==
    {[s EXCEPT !.iaq = SV(0, 0), !.co2 = SV(0, 0), !.voc = SV(0, 0)] :
        s \in {x \in Samples : x.press \notin PressValsWide}}

NoSample ==
    [temp |-> SV(0, 0), press |-> SV(0, 0), humidity |-> SV(0, 0),
     iaq |-> SV(0, 0), co2 |-> SV(0, 0), voc |-> SV(0, 0)]

\* error codes: -ENODEV of init_sensor, and the codes a radio call may return
ENODEV == 19
RadioErrs == {-5}

(***************************************************************************)
(* Current Time Service: struct rtc_time and struct bt_cts_time_format     *)
(***************************************************************************)

\* conversion to uint8_t (mon, mday, hours, min, sec, wday of the CTS format)
ToUint8(x) == x % 256

Tm(y, mo, d, h, mi, s, wd) ==
    [tm_year |-> y, tm_mon |-> mo, tm_mday |-> d, tm_hour |-> h,
     tm_min |-> mi, tm_sec |-> s, tm_wday |-> wd]

CtsTime(y, mo, d, h, mi, s, wd) ==
    [year |-> y, mon |-> mo, mday |-> d, hours |-> h, min |-> mi, sec |-> s,
     wday |-> wd]

NoTm == Tm(0, 0, 0, 0, 0, 0, 0)
NoCtsTime == CtsTime(0, 0, 0, 0, 0, 0, 0)

\* weekdays of struct rtc_time: days since Sunday
WDays == 0 .. 6

\* what the RTC may hold at boot: Sunday 2025-06-01 to Saturday 2025-06-07
RtcTimes == {Tm(125, 5, 1 + wd, 12, 34, 58, wd) : wd \in WDays}

\* the times a client may write
CtsTimes ==
    {CtsTime(2025, 11, 5, 19, 36, 58, 3),
     CtsTime(2024, 2, 29, 23, 59, 59, 4),
     CtsTime(1900, 12, 31, 0, 0, 58, 1)}

\* return values of rtc_set_time (-EINVAL) and rtc_get_time (-ENODATA, -EIO)
RtcSetResults == {0, -22}
RtcGetResults == {0, -61, -5}

\* the last second of a minute; the model lets the clock run up to it
MaxSec == 59

\* a slip that hands the 1-based month to the RTC
cts_time_write_tm_month_kept(cts_time) ==
    Tm(cts_time.year - 1900, cts_time.mon, cts_time.mday,
       cts_time.hours, cts_time.min, cts_time.sec, 0)

\* cts_time_write: the struct rtc_time handed to rtc_set_time; the members
\* the initialiser does not name (tm_wday among them) are zero
cts_time_write_tm(cts_time) ==
    Tm(cts_time.year - 1900, cts_time.mon - 1, cts_time.mday,
       cts_time.hours, cts_time.min, cts_time.sec, 0)

\* cts_time_read: the struct bt_cts_time_format filled from the RTC's time
cts_time_read_fmt(tm) ==
    CtsTime(ToUint16(tm.tm_year + 1900), ToUint8(tm.tm_mon + 1),
            ToUint8(tm.tm_mday), ToUint8(tm.tm_hour), ToUint8(tm.tm_min),
            ToUint8(tm.tm_sec), ToUint8(CMod(tm.tm_wday + 7, 7) + 1))

\* cts_time_read: its return value, given what rtc_get_time returned
cts_time_read_ret(ret) == IF ret < 0 THEN ret ELSE 0

\* a slip that clears the caller's structure when the clock cannot be read
cts_time_read_out_zeroed(ret, tm, cts_time) ==
    IF ret < 0 THEN NoCtsTime ELSE cts_time_read_fmt(tm)

\* cts_time_read: the caller's structure after the call
cts_time_read_out(ret, tm, cts_time) ==
    IF ret < 0 THEN cts_time ELSE cts_time_read_fmt(tm)

(***************************************************************************)
(* State                                                                   *)
(***************************************************************************)

Apps == {"three", "combined", "simple", "time"}

VARIABLES
    app,                    \* the application that was built and booted
    pc,                     \* position of main / of the poll-cycle handler
    work,                   \* sensor_advertise_work
    sleepLeft,              \* ticks left of the handler's k_sleep
    sample,                 \* the channel values read in the latest cycle
    fetch_err,              \* err of the latest sensor_sample_fetch
    outcome,                \* branch the latest cycle took
    cycle,                  \* flips at every start of a poll cycle
    nUpd,                   \* radio updates issued in the latest cycle
    service_data_temp_hum,
    service_data_press,
    service_data_voc_co2,
    service_data_combined,
    service_data_press_gas,
    live,                   \* advertising data held by the radio
    liveAge,                \* ticks since the radio was given that data, up to Dwell
    adv_err,                \* err of the latest bt_le_adv_update_data /
                            \*   bt_le_ext_adv_set_data of a poll cycle
    adv_started,            \* bt_le_adv_start / bt_le_ext_adv_start succeeded
    init_ret,               \* init_sensor: whether it returned, and what
    state,                  \* time app: ATOMIC_DEFINE(state, STATE_BITS)
    adv_work,               \* time app: K_WORK_DEFINE(adv_work, ...)
    ext_adv,                \* time app: built with CONFIG_BT_EXT_ADV
    adv_sets,               \* time app: advertising sets created so far
    advertising,            \* time app: connectable advertising is on air
    conn,                   \* time app: "none", "connected", "teardown"
    recycle,                \* time app: conn object release awaiting recycled
    nConn,                  \* time app: connected notifications so far
    discOpen,               \* time app: a disconnection happened and no
                            \*   connected notification has followed it yet
    enqSinceDisc,           \* time app: adv_work enqueued since that disconnection
    runSinceDisc,           \* time app: adv_work executed since that disconnection
    rtc_tm,                 \* time app: the struct rtc_time the RTC holds
    cts_ret,                \* time app: the latest call of a CTS callback: which,
                            \*   what the RTC driver returned to it, its return
                            \*   value, its struct bt_cts_time_format
    written,                \* time app: the time of the latest successful write,
                            \*   and whether the clock has not advanced since
    link,                   \* sensor apps: "none" while no central is or was
                            \*   connected, "connected", "closed" once it left
    dev_ready,              \* what device_is_ready answered at boot: "unknown"
                            \*   until asked, then "ready" or "not_ready"
    bt_enabled              \* bt_enable was called and returned 0

sensorVars ==
    <<pc, work, sleepLeft, sample, fetch_err, outcome, cycle, nUpd,
      service_data_temp_hum, service_data_press, service_data_voc_co2,
      service_data_combined, service_data_press_gas, live, liveAge, adv_err,
      adv_started, init_ret>>

ctsVars == <<rtc_tm, cts_ret, written>>

timeVars ==
    <<state, adv_work, adv_sets, advertising, conn, recycle,
      nConn, discOpen, enqSinceDisc, runSinceDisc, ctsVars, link>>

bootVars == <<dev_ready, bt_enabled>>

vars == <<app, ext_adv, bootVars, sensorVars, timeVars>>

NoLive == [slot |-> "none", data |-> <<>>]

Init ==
    /\ app \in Apps
    /\ pc = "boot"
    /\ work = IdleWork
    /\ sleepLeft = 0
    /\ sample = NoSample
    /\ fetch_err = 0
    /\ outcome = "none"
    /\ cycle = 0
    /\ nUpd = 0
    /\ service_data_temp_hum =
         CASE app = "three" -> Init_temp_hum
           [] app = "simple" -> Init_simple_temp_hum
           [] OTHER -> <<>>
    /\ service_data_press = IF app = "three" THEN Init_press ELSE <<>>
    /\ service_data_voc_co2 = IF app = "three" THEN Init_voc_co2 ELSE <<>>
    /\ service_data_combined = IF app = "combined" THEN Init_combined ELSE <<>>
    /\ service_data_press_gas = IF app = "simple" THEN Init_simple_press_gas ELSE <<>>
    /\ live = NoLive
    /\ liveAge = 0
    /\ adv_err = 0
    /\ adv_started = FALSE
    /\ init_ret = [done |-> FALSE, val |-> 0]
    /\ state = {}
    /\ adv_work = [queued |-> FALSE]
    /\ ext_adv \in (IF app = "time" THEN BOOLEAN ELSE {FALSE})
    /\ adv_sets = 0
    /\ advertising = FALSE
    /\ conn = "none"
    /\ recycle = "none"
    /\ nConn = 0
    /\ discOpen = FALSE
    /\ enqSinceDisc = 0
    /\ runSinceDisc = 0
    /\ rtc_tm \in (IF app = "time" THEN RtcTimes ELSE {NoTm})
    /\ cts_ret = [op |-> "none", dev |-> 0, ret |-> 0, time |-> NoCtsTime]
    /\ written = [fresh |-> FALSE, time |-> NoCtsTime]
    /\ link = "none"
    /\ dev_ready = "unknown"
    /\ bt_enabled = FALSE


(***************************************************************************)
(* Radio                                                                   *)
(***************************************************************************)

\* bt_le_adv_update_data / bt_le_ext_adv_set_data: on success the radio holds
\* a copy of the buffer, on failure it keeps what it held
adv_update(l, slot, data, err) ==
    IF err = 0 THEN [slot |-> slot, data |-> data] ELSE l

RadioResults == {0} \cup RadioErrs

\* the age of the radio's data after an update that returned err
age_after(age, err) == IF err = 0 THEN 0 ELSE age

(***************************************************************************)
(* main of the sensor applications and init_sensor                         *)
(***************************************************************************)

\* a slip that schedules the first poll cycle although advertising did not start
init_sensor_three_schedules_anyway(ready, start_err) ==
    /\ pc' = "idle"
    /\ IF ~ready
       THEN /\ init_ret' = [done |-> TRUE, val |-> -ENODEV]
            /\ UNCHANGED <<work, live, adv_started>>
       ELSE /\ adv_started' = (start_err = 0)
            /\ live' = IF start_err = 0
                       THEN [slot |-> "temp_hum", data |-> service_data_temp_hum]
                       ELSE live
            /\ work' = k_work_schedule(work, 0)
            /\ init_ret' = [done |-> TRUE, val |-> 0]

\* init_sensor, three-payload design
init_sensor_three(ready, start_err) ==
    /\ pc' = "idle"
    /\ IF ~ready
       THEN /\ init_ret' = [done |-> TRUE, val |-> -ENODEV]
            /\ UNCHANGED <<work, live, adv_started>>
       ELSE IF start_err # 0
       THEN /\ init_ret' = [done |-> TRUE, val |-> 0]
            /\ UNCHANGED <<work, live, adv_started>>
       ELSE /\ adv_started' = TRUE
            /\ live' = [slot |-> "temp_hum", data |-> service_data_temp_hum]
            /\ work' = k_work_schedule(work, 0)
            /\ init_ret' = [done |-> TRUE, val |-> 0]

\* a slip that sets up the radio without asking whether the sensor is ready
init_sensor_combined_ignores_ready(ready, create_err, set_err, start_err) ==
    /\ pc' = "idle"
    /\ IF create_err # 0
       THEN /\ init_ret' = [done |-> TRUE, val |-> create_err]
            /\ UNCHANGED <<work, live, adv_started>>
       ELSE IF set_err # 0
       THEN /\ init_ret' = [done |-> TRUE, val |-> set_err]
            /\ UNCHANGED <<work, live, adv_started>>
       ELSE IF start_err # 0
       THEN /\ init_ret' = [done |-> TRUE, val |-> start_err]
            /\ live' = [slot |-> "combined", data |-> service_data_combined]
            /\ UNCHANGED <<work, adv_started>>
       ELSE /\ adv_started' = TRUE
            /\ live' = [slot |-> "combined", data |-> service_data_combined]
            /\ work' = k_work_schedule(work, 0)
            /\ init_ret' = [done |-> TRUE, val |-> 0]

\* init_sensor, combined design
init_sensor_combined(ready, create_err, set_err, start_err) ==
    /\ pc' = "idle"
    /\ IF ~ready
       THEN /\ init_ret' = [done |-> TRUE, val |-> -ENODEV]
            /\ UNCHANGED <<work, live, adv_started>>
       ELSE IF create_err # 0
       THEN /\ init_ret' = [done |-> TRUE, val |-> create_err]
            /\ UNCHANGED <<work, live, adv_started>>
       ELSE IF set_err # 0
       THEN /\ init_ret' = [done |-> TRUE, val |-> set_err]
            /\ UNCHANGED <<work, live, adv_started>>
       ELSE IF start_err # 0
       THEN /\ init_ret' = [done |-> TRUE, val |-> start_err]
            /\ live' = [slot |-> "combined", data |-> service_data_combined]
            /\ UNCHANGED <<work, adv_started>>
       ELSE /\ adv_started' = TRUE
            /\ live' = [slot |-> "combined", data |-> service_data_combined]
            /\ work' = k_work_schedule(work, 0)
            /\ init_ret' = [done |-> TRUE, val |-> 0]

\* main of the work-handler applications: bt_enable, then init_sensor
main_bthome ==
    /\ app \in {"three", "combined"}
    /\ pc = "boot"
    /\ \E bt_err \in RadioResults, ready \in BOOLEAN,
          create_err \in RadioResults, set_err \in RadioResults,
          start_err \in RadioResults :
         /\ bt_enabled' = (bt_err = 0)
         /\ dev_ready' = IF bt_err # 0 THEN dev_ready
                         ELSE IF ready THEN "ready" ELSE "not_ready"
         /\ IF bt_err # 0
            THEN /\ pc' = "idle"
                 /\ UNCHANGED <<work, live, adv_started, init_ret>>
            ELSE IF app = "three"
            THEN init_sensor_three(ready, start_err)
            ELSE init_sensor_combined(ready, create_err, set_err, start_err)
    /\ UNCHANGED <<app, ext_adv, sleepLeft, sample, fetch_err, outcome, cycle, nUpd,
                   service_data_temp_hum, service_data_press, service_data_voc_co2,
                   service_data_combined, service_data_press_gas, liveAge, adv_err,
                   timeVars>>

(***************************************************************************)
(* sensor_work_handler, three-payload design                               *)
(***************************************************************************)

\* a slip of the scheduling: the queued item is started while the previous
\* execution of the handler still sleeps
sensor_work_handler_three_reentrant ==
    /\ app = "three"
    /\ work.queued
    /\ \E err \in RadioResults, s \in Samples, upd_err \in RadioResults :
         LET w0 == [work EXCEPT !.queued = FALSE, !.running = TRUE]
         IN  /\ work' = IF err # 0 THEN k_work_schedule(w0, Delay) ELSE w0
             /\ fetch_err' = err
             /\ outcome' = IF err # 0 THEN "fetch_failed" ELSE "encoded"
             /\ sample' = s
             /\ service_data_temp_hum' = EncodeTempHum(service_data_temp_hum, s)
             /\ service_data_press' = EncodePress(service_data_press, s)
             /\ service_data_voc_co2' = EncodeVocCo2(service_data_voc_co2, s)
             /\ live' = adv_update(live, "temp_hum", service_data_temp_hum', upd_err)
             /\ liveAge' = age_after(liveAge, upd_err)
             /\ adv_err' = upd_err
    /\ nUpd' = 1
    /\ cycle' = 1 - cycle
    /\ pc' = "sleep1"
    /\ sleepLeft' = Dwell
    /\ UNCHANGED <<app, ext_adv, bootVars, service_data_combined, service_data_press_gas,
                   adv_started, init_ret, timeVars>>

\* from the entry of the handler to the first k_sleep
sensor_work_handler_three ==
    /\ app = "three"
    /\ pc = "idle"
    /\ work.queued
    /\ \E err \in RadioResults, s \in Samples, upd_err \in RadioResults :
         LET w0 == [work EXCEPT !.queued = FALSE, !.running = TRUE]
         IN  /\ work' = IF err # 0 THEN k_work_schedule(w0, Delay) ELSE w0
             /\ fetch_err' = err
             /\ outcome' = IF err # 0 THEN "fetch_failed" ELSE "encoded"
             /\ sample' = s
             /\ service_data_temp_hum' = EncodeTempHum(service_data_temp_hum, s)
             /\ service_data_press' = EncodePress(service_data_press, s)
             /\ service_data_voc_co2' = EncodeVocCo2(service_data_voc_co2, s)
             /\ live' = adv_update(live, "temp_hum", service_data_temp_hum', upd_err)
             /\ liveAge' = age_after(liveAge, upd_err)
             /\ adv_err' = upd_err
    /\ nUpd' = 1
    /\ cycle' = 1 - cycle
    /\ pc' = "sleep1"
    /\ sleepLeft' = Dwell
    /\ UNCHANGED <<app, ext_adv, bootVars, service_data_combined, service_data_press_gas,
                   adv_started, init_ret, timeVars>>

\* a slip that gives the cycle up when the second update fails
sensor_work_handler_three_press_gives_up ==
    /\ app = "three"
    /\ pc = "sleep1"
    /\ sleepLeft = 0
    /\ \E upd_err \in RadioResults :
         /\ live' = adv_update(live, "press", service_data_press, upd_err)
         /\ liveAge' = age_after(liveAge, upd_err)
         /\ adv_err' = upd_err
         /\ IF upd_err = 0
            THEN pc' = "sleep2" /\ sleepLeft' = Dwell /\ work' = work
            ELSE pc' = "idle" /\ sleepLeft' = 0
                 /\ work' = [work EXCEPT !.running = FALSE]
    /\ nUpd' = nUpd + 1
    /\ UNCHANGED <<app, ext_adv, bootVars, sample, fetch_err, outcome, cycle,
                   service_data_temp_hum, service_data_press, service_data_voc_co2,
                   service_data_combined, service_data_press_gas,
                   adv_started, init_ret, timeVars>>

\* from the end of the first k_sleep to the second k_sleep
sensor_work_handler_three_press ==
    /\ app = "three"
    /\ pc = "sleep1"
    /\ sleepLeft = 0
    /\ \E upd_err \in RadioResults :
         /\ live' = adv_update(live, "press", service_data_press, upd_err)
         /\ liveAge' = age_after(liveAge, upd_err)
         /\ adv_err' = upd_err
    /\ nUpd' = nUpd + 1
    /\ pc' = "sleep2"
    /\ sleepLeft' = Dwell
    /\ UNCHANGED <<app, ext_adv, bootVars, work, sample, fetch_err, outcome, cycle,
                   service_data_temp_hum, service_data_press, service_data_voc_co2,
                   service_data_combined, service_data_press_gas,
                   adv_started, init_ret, timeVars>>

\* from the end of the second k_sleep to the return of the handler
sensor_work_handler_three_voc ==
    /\ app = "three"
    /\ pc = "sleep2"
    /\ sleepLeft = 0
    /\ \E upd_err \in RadioResults :
         /\ live' = adv_update(live, "voc_co2", service_data_voc_co2, upd_err)
         /\ liveAge' = age_after(liveAge, upd_err)
         /\ adv_err' = upd_err
    /\ nUpd' = nUpd + 1
    /\ work' = [k_work_schedule(work, Delay) EXCEPT !.running = FALSE]
    /\ pc' = "idle"
    /\ UNCHANGED <<app, ext_adv, bootVars, sleepLeft, sample, fetch_err, outcome, cycle,
                   service_data_temp_hum, service_data_press, service_data_voc_co2,
                   service_data_combined, service_data_press_gas,
                   adv_started, init_ret, timeVars>>

(***************************************************************************)
(* sensor_work_handler, combined design                                    *)
(***************************************************************************)

sensor_work_handler_combined ==
    /\ app = "combined"
    /\ pc = "idle"
    /\ work.queued
    /\ \E err \in RadioResults, s \in Samples, upd_err \in RadioResults :
         IF err # 0
         THEN /\ outcome' = "fetch_failed"
              /\ fetch_err' = err
              /\ nUpd' = 0
              /\ UNCHANGED <<sample, service_data_combined, live, liveAge, adv_err>>
         ELSE IF InvalidReading(s)
         THEN /\ outcome' = "invalid"
              /\ fetch_err' = err
              /\ sample' = s
              /\ nUpd' = 0
              /\ UNCHANGED <<service_data_combined, live, liveAge, adv_err>>
         ELSE /\ outcome' = "encoded"
              /\ fetch_err' = err
              /\ sample' = s
              /\ service_data_combined' = EncodeCombined(service_data_combined, s)
              /\ live' = adv_update(live, "combined", service_data_combined', upd_err)
              /\ liveAge' = age_after(liveAge, upd_err)
              /\ adv_err' = upd_err
              /\ nUpd' = 1
    /\ work' = reschedule([work EXCEPT !.queued = FALSE])
    /\ cycle' = 1 - cycle
    /\ UNCHANGED <<app, ext_adv, bootVars, pc, sleepLeft, service_data_temp_hum,
                   service_data_press, service_data_voc_co2, service_data_press_gas,
                   adv_started, init_ret, timeVars>>

(***************************************************************************)
(* Passage of time for the work-handler applications                       *)
(***************************************************************************)

\* something must run before time may pass: a queued item on an idle work
\* queue, or a handler whose sleep has ended
Urgent ==
    \/ work.queued /\ ~work.running
    \/ pc \in {"sleep1", "sleep2"} /\ sleepLeft = 0

\* a timeout that expires submits the item to the queue
Tick ==
    /\ app \in {"three", "combined"}
    /\ ~Urgent
    /\ work.timer > 0 \/ sleepLeft > 0
    /\ sleepLeft' = IF sleepLeft > 0 THEN sleepLeft - 1 ELSE 0
    /\ liveAge' = IF liveAge < Dwell THEN liveAge + 1 ELSE liveAge
    /\ work' = IF work.timer > 1 THEN [work EXCEPT !.timer = work.timer - 1]
               ELSE IF work.timer = 1 THEN [work EXCEPT !.timer = -1, !.queued = TRUE]
               ELSE work
    /\ UNCHANGED <<app, ext_adv, bootVars, pc, sample, fetch_err, outcome, cycle, nUpd,
                   service_data_temp_hum, service_data_press, service_data_voc_co2,
                   service_data_combined, service_data_press_gas, live, adv_err,
                   adv_started, init_ret, timeVars>>

(***************************************************************************)
(* The simple loop                                                         *)
(***************************************************************************)

\* main up to the for loop
main_simple ==
    /\ app = "simple"
    /\ pc = "boot"
    /\ \E ready \in BOOLEAN, bt_err \in RadioResults, start_err \in RadioResults :
         /\ dev_ready' = IF ready THEN "ready" ELSE "not_ready"
         /\ bt_enabled' = (ready /\ bt_err = 0)
         /\ IF ready /\ bt_err = 0 /\ start_err = 0
            THEN /\ pc' = "loop"
                 /\ adv_started' = TRUE
                 /\ live' = [slot |-> "temp_hum", data |-> service_data_temp_hum]
            ELSE /\ pc' = "halt"
                 /\ UNCHANGED <<adv_started, live>>
    /\ UNCHANGED <<app, ext_adv, work, sleepLeft, sample, fetch_err, outcome, cycle,
                   nUpd, service_data_temp_hum, service_data_press,
                   service_data_voc_co2, service_data_combined,
                   service_data_press_gas, liveAge, adv_err, init_ret, timeVars>>

\* one iteration, from sensor_sample_fetch to the first k_sleep
simple_loop_temp_hum ==
    /\ app = "simple"
    /\ pc \in {"loop", "sleep2"}
    /\ \E err \in RadioResults, s \in SimpleSamples, upd_err \in RadioResults :
         /\ fetch_err' = err
         /\ outcome' = IF err # 0 THEN "fetch_failed" ELSE "encoded"
         /\ sample' = s
         /\ service_data_temp_hum' = EncodeTempHum(service_data_temp_hum, s)
         /\ service_data_press_gas' = EncodePressGas(service_data_press_gas, s)
         /\ live' = adv_update(live, "temp_hum", service_data_temp_hum', upd_err)
         /\ adv_err' = upd_err
    /\ nUpd' = 1
    /\ cycle' = 1 - cycle
    /\ pc' = "sleep1"
    /\ UNCHANGED <<app, ext_adv, bootVars, work, sleepLeft, liveAge, service_data_press,
                   service_data_voc_co2, service_data_combined,
                   adv_started, init_ret, timeVars>>

\* the second update, then k_sleep(K_MINUTES(5))
simple_loop_press_gas ==
    /\ app = "simple"
    /\ pc = "sleep1"
    /\ \E upd_err \in RadioResults :
         /\ live' = adv_update(live, "press_gas", service_data_press_gas, upd_err)
         /\ adv_err' = upd_err
    /\ nUpd' = nUpd + 1
    /\ pc' = "sleep2"
    /\ UNCHANGED <<app, ext_adv, bootVars, work, sleepLeft, liveAge, sample, fetch_err, outcome, cycle,
                   service_data_temp_hum, service_data_press, service_data_voc_co2,
                   service_data_combined, service_data_press_gas,
                   adv_started, init_ret, timeVars>>


(***************************************************************************)
(* The time application                                                    *)
(***************************************************************************)

\* connections one run may see
MaxConn == 3

\* advertising sets the controller can hold (CONFIG_BT_EXT_ADV_MAX_ADV_SET)
MaxAdvSet == 2

\* err of the connected callback: success, or an HCI error code
ConnErrs == {0, 62}

\* whether k_work_submit(&w) puts the item on the queue (it returns 1)
Enqueues(w) == ~w.queued

\* main
main_time ==
    /\ app = "time"
    /\ pc = "boot"
    /\ \E rtc_ready \in BOOLEAN, bt_err \in RadioResults :
         /\ dev_ready' = IF rtc_ready THEN "ready" ELSE "not_ready"
         /\ bt_enabled' = (rtc_ready /\ bt_err = 0)
         /\ IF rtc_ready /\ bt_err = 0
            THEN /\ pc' = "run"
                 /\ adv_work' = k_work_submit(adv_work)
            ELSE /\ pc' = "halt"
                 /\ UNCHANGED adv_work
    /\ UNCHANGED <<app, ext_adv, work, sleepLeft, sample, fetch_err, outcome, cycle,
                   nUpd, service_data_temp_hum, service_data_press,
                   service_data_voc_co2, service_data_combined,
                   service_data_press_gas, live, liveAge, adv_err, adv_started,
                   init_ret, state, adv_sets, advertising, conn, recycle,
                   nConn, discOpen, enqSinceDisc, runSinceDisc, ctsVars, link>>

\* adv_work_handler: legacy advertising, or a new extended advertising set
adv_work_handler ==
    /\ app = "time"
    /\ adv_work.queued
    /\ adv_work' = [adv_work EXCEPT !.queued = FALSE]
    /\ runSinceDisc' = runSinceDisc + (IF discOpen THEN 1 ELSE 0)
    /\ IF ~ext_adv
       THEN /\ \E err \in RadioResults :
                 advertising' = IF err = 0 THEN TRUE ELSE advertising
            /\ UNCHANGED adv_sets
       ELSE \E coded_err \in RadioResults, plain_err \in RadioResults,
               set_err \in RadioResults, start_err \in RadioResults :
              LET free == adv_sets < MaxAdvSet
                  created == free /\ (coded_err = 0 \/ plain_err = 0)
              IN  /\ adv_sets' = IF created THEN adv_sets + 1 ELSE adv_sets
                  /\ advertising' =
                       IF created /\ set_err = 0 /\ start_err = 0
                       THEN TRUE ELSE advertising
    /\ UNCHANGED <<app, ext_adv, bootVars, sensorVars, state, conn, recycle,
                   nConn, discOpen, enqSinceDisc, ctsVars, link>>

\* connected callback; a central can connect only to an advertiser, and the
\* advertising that led to the connection (or to its failure) has ended
connected ==
    /\ app = "time"
    /\ advertising
    /\ conn = "none"
    /\ nConn < MaxConn
    /\ nConn' = nConn + 1
    /\ advertising' = FALSE
    /\ discOpen' = FALSE
    /\ enqSinceDisc' = 0
    /\ runSinceDisc' = 0
    /\ \E err \in ConnErrs :
         IF err # 0
         THEN /\ recycle' = "fail"
              /\ UNCHANGED <<state, conn>>
         ELSE /\ state' = state \cup {"STATE_CONNECTED"}
              /\ conn' = "connected"
              /\ UNCHANGED recycle
    /\ UNCHANGED <<app, ext_adv, bootVars, sensorVars, adv_work, adv_sets, ctsVars, link>>

\* a slip that restarts advertising from the disconnected callback as well
disconnected_restarts ==
    /\ app = "time"
    /\ conn = "connected"
    /\ state' = state \cup {"STATE_DISCONNECTED"}
    /\ conn' = "teardown"
    /\ recycle' = "disc"
    /\ discOpen' = TRUE
    /\ adv_work' = k_work_submit(adv_work)
    /\ enqSinceDisc' = IF Enqueues(adv_work) THEN 1 ELSE 0
    /\ runSinceDisc' = 0
    /\ UNCHANGED <<app, ext_adv, bootVars, sensorVars, adv_sets, advertising, nConn, ctsVars, link>>

\* a slip that starts advertising inside the disconnected callback
disconnected_starts_inline ==
    /\ app = "time"
    /\ conn = "connected"
    /\ state' = state \cup {"STATE_DISCONNECTED"}
    /\ conn' = "teardown"
    /\ recycle' = "disc"
    /\ discOpen' = TRUE
    /\ enqSinceDisc' = 0
    /\ runSinceDisc' = 0
    /\ advertising' = TRUE
    /\ UNCHANGED <<app, ext_adv, bootVars, sensorVars, adv_work, adv_sets, nConn, ctsVars, link>>

\* disconnected callback of an established connection
disconnected ==
    /\ app = "time"
    /\ conn = "connected"
    /\ state' = state \cup {"STATE_DISCONNECTED"}
    /\ conn' = "teardown"
    /\ recycle' = "disc"
    /\ discOpen' = TRUE
    /\ enqSinceDisc' = 0
    /\ runSinceDisc' = 0
    /\ UNCHANGED <<app, ext_adv, bootVars, sensorVars, adv_work, adv_sets, advertising, nConn,
                   ctsVars, link>>

\* recycled callback: the connection object is back in the pool
recycled_cb ==
    /\ app = "time"
    /\ recycle # "none"
    /\ adv_work' = k_work_submit(adv_work)
    /\ enqSinceDisc' =
         enqSinceDisc + (IF discOpen /\ Enqueues(adv_work) THEN 1 ELSE 0)
    /\ recycle' = "none"
    /\ conn' = "none"
    /\ UNCHANGED <<app, ext_adv, bootVars, sensorVars, state, adv_sets, advertising,
                   nConn, discOpen, runSinceDisc, ctsVars, link>>

\* cts_time_write, called by the CTS service for a client's write; a driver
\* keeps tm_wday as given or derives it from the date
cts_time_write ==
    /\ app = "time"
    /\ pc = "run"
    /\ \E cts_time \in CtsTimes, ret \in RtcSetResults, wd \in WDays :
         /\ rtc_tm' = IF ret = 0
                      THEN [cts_time_write_tm(cts_time) EXCEPT !.tm_wday = wd]
                      ELSE rtc_tm
         /\ cts_ret' = [op |-> "write", dev |-> ret, ret |-> ret, time |-> cts_time]
         /\ written' = IF ret = 0 THEN [fresh |-> TRUE, time |-> cts_time]
                       ELSE written
    /\ UNCHANGED <<app, ext_adv, bootVars, sensorVars, state, adv_work, adv_sets, advertising,
                   conn, recycle, nConn, discOpen, enqSinceDisc, runSinceDisc, link>>

\* cts_time_read, called by the CTS service for a client's read
cts_time_read ==
    /\ app = "time"
    /\ pc = "run"
    /\ \E ret \in RtcGetResults :
         cts_ret' = [op |-> "read", dev |-> ret, ret |-> cts_time_read_ret(ret),
                     time |-> cts_time_read_out(ret, rtc_tm, cts_ret.time)]
    /\ UNCHANGED <<app, ext_adv, bootVars, sensorVars, state, adv_work, adv_sets, advertising,
                   conn, recycle, nConn, discOpen, enqSinceDisc, runSinceDisc,
                   rtc_tm, written, link>>

\* the RTC counts a second
rtc_tick ==
    /\ app = "time"
    /\ rtc_tm.tm_sec < MaxSec
    /\ rtc_tm' = [rtc_tm EXCEPT !.tm_sec = rtc_tm.tm_sec + 1]
    /\ written' = [written EXCEPT !.fresh = FALSE]
    /\ UNCHANGED <<app, ext_adv, bootVars, sensorVars, state, adv_work, adv_sets, advertising,
                   conn, recycle, nConn, discOpen, enqSinceDisc, runSinceDisc,
                   cts_ret, link>>

(***************************************************************************)
(* A central and the connectable advertising of the sensor applications    *)
(***************************************************************************)

\* a central connects to the connectable advertiser; the controller ends the
\* advertising that led to the connection
central_connects ==
    /\ app \in {"three", "combined"}
    /\ adv_started
    /\ link = "none"
    /\ link' = "connected"
    /\ UNCHANGED <<app, ext_adv, bootVars, sensorVars, state, adv_work, adv_sets, advertising,
                   conn, recycle, nConn, discOpen, enqSinceDisc, runSinceDisc,
                   ctsVars>>

\* the central leaves; neither design registers a connection callback
central_disconnects ==
    /\ app \in {"three", "combined"}
    /\ link = "connected"
    /\ link' = "closed"
    /\ UNCHANGED <<app, ext_adv, bootVars, sensorVars, state, adv_work, adv_sets, advertising,
                   conn, recycle, nConn, discOpen, enqSinceDisc, runSinceDisc,
                   ctsVars>>

\* the host resumes legacy advertising that was started with
\* BT_LE_ADV_OPT_CONNECTABLE (ADV_PARAM of the three-payload design); an
\* advertising set started with BT_LE_ADV_OPT_CONN (combined design) stays
\* disabled until bt_le_ext_adv_start is called again
adv_resume ==
    /\ app = "three"
    /\ link = "closed"
    /\ link' = "none"
    /\ UNCHANGED <<app, ext_adv, bootVars, sensorVars, state, adv_work, adv_sets, advertising,
                   conn, recycle, nConn, discOpen, enqSinceDisc, runSinceDisc,
                   ctsVars>>

(***************************************************************************)
(* Specification                                                           *)
(***************************************************************************)

Next ==
    \/ main_bthome
    \/ sensor_work_handler_three
    \/ sensor_work_handler_three_press
    \/ sensor_work_handler_three_voc
    \/ sensor_work_handler_combined
    \/ Tick
    \/ main_simple
    \/ simple_loop_temp_hum
    \/ simple_loop_press_gas
    \/ main_time
    \/ adv_work_handler
    \/ connected
    \/ disconnected
    \/ recycled_cb

Spec == Init /\ [][Next]_vars

\* the time app with its CTS callbacks and its RTC
CtsInit == Init /\ app = "time"

CtsNext ==
    \/ main_time
    \/ cts_time_write
    \/ cts_time_read
    \/ rtc_tick

CtsSpec == CtsInit /\ [][CtsNext]_vars

\* what the work queue thread, the kernel timer and the main thread do in
\* the sensor applications
PollNext ==
    \/ sensor_work_handler_three
    \/ sensor_work_handler_three_press
    \/ sensor_work_handler_three_voc
    \/ sensor_work_handler_combined
    \/ Tick
    \/ simple_loop_temp_hum
    \/ simple_loop_press_gas

\* what the work queue thread and the Bluetooth host thread owe the time app
RestartNext == adv_work_handler \/ recycled_cb

\* the threads of the firmware run whenever they have something to do; a
\* central is free never to connect or to disconnect
FairSpec == Spec /\ WF_vars(PollNext) /\ WF_vars(RestartNext)

\* the applications with a central that connects to the sensor applications
\* too, every thread of the firmware and of the host running when it can
ConnNext ==
    \/ Next
    \/ central_connects
    \/ central_disconnects
    \/ adv_resume

ConnSpec ==
    /\ Init
    /\ [][ConnNext]_vars
    /\ WF_vars(PollNext)
    /\ WF_vars(RestartNext)
    /\ WF_vars(adv_resume)

(***************************************************************************)
(* Properties                                                              *)
(***************************************************************************)

Buffers ==
    <<service_data_temp_hum, service_data_press, service_data_voc_co2,
      service_data_combined, service_data_press_gas>>

\* the payload buffers hold the encoding of sample: the three-payload design
\* and the simple loop encode in every cycle, the combined design only when
\* the fetch succeeded and the reading passed validation
LastEncoded ==
    \/ app \in {"three", "simple"} /\ outcome # "none"
    \/ app = "combined" /\ outcome = "encoded"

\* the bytes of a value, as the claims state them
Lo(x) == x % 256
Hi(x) == (x \div 256) % 256
Top(x) == (x \div 65536) % 256

\* C1: in every design a poll cycle whose sample fetch fails leaves every
\* payload buffer as it was before the cycle and issues no radio update.
C1_FetchFailureSkipsCycle ==
    [][fetch_err' # 0 => (Buffers' = Buffers /\ nUpd' = 0)]_vars

\* C2: every execution of the poll-cycle handler returns with the next cycle
\* pending, due after no more than the fixed delay, whichever branch it took;
\* with a fair work queue and timer a started poll cycle is always followed by
\* another one.
PollStarted == app \in {"three", "combined"} /\ (WorkPending(work) \/ work.running)

HandlerReturns ==
    \/ app = "three" /\ pc = "sleep2" /\ pc' = "idle"
    \/ app = "combined" /\ cycle' # cycle

Centi(v) == v.val1 * 100 + v.val2 \div 10000

InCentiDomain(v) ==
    /\ 0 <= v.val2 /\ v.val2 < 1000000
    /\ -32768 <= Centi(v) /\ Centi(v) <= 65535

CentiField(buf, off, v) ==
    InCentiDomain(v) => At(buf, off) = Lo(Centi(v)) /\ At(buf, off + 1) = Hi(Centi(v))

C3_CentiEncoders ==
    LastEncoded =>
        CASE app = "three" ->
               /\ CentiField(service_data_temp_hum, 4, sample.temp)
               /\ CentiField(service_data_temp_hum, 7, sample.humidity)
               /\ CentiField(service_data_voc_co2, 4, sample.voc)
          [] app = "combined" ->
               /\ CentiField(service_data_combined, 4, sample.temp)
               /\ CentiField(service_data_combined, 7, sample.humidity)
               /\ CentiField(service_data_combined, 14, sample.voc)
          [] app = "simple" ->
               /\ CentiField(service_data_temp_hum, 4, sample.temp)
               /\ CentiField(service_data_temp_hum, 7, sample.humidity)
          [] OTHER -> TRUE

\* temperature (22, 500000) gives [0xCA, 0x08], humidity (55, 0) gives [0x7C, 0x15]
C3_Witness ==
    /\ app = "three"
    /\ LastEncoded
    /\ sample.temp = SV(22, 500000)
    /\ sample.humidity = SV(55, 0)
    /\ SubSeq(service_data_temp_hum, 4, 9) = <<2, 202, 8, 3, 124, 21>>

\* C4: in every payload of every design every multi-byte field is stored
\* little-endian: the least significant byte directly after the tag.
LE16(buf, off) == At(buf, off) + 256 * At(buf, off + 1)
LE24(buf, off) == At(buf, off) + 256 * At(buf, off + 1) + 65536 * At(buf, off + 2)

C4_AllFieldsLittleEndian ==
    LastEncoded =>
        CASE app = "three" ->
               /\ LE16(service_data_temp_hum, 4) = temp_scaled(sample.temp) % 65536
               /\ LE16(service_data_temp_hum, 7) = humidity_scaled(sample.humidity) % 65536
               /\ LE24(service_data_press, 4) = pressure_scaled(sample.press) % 16777216
               /\ LE16(service_data_voc_co2, 4) = voc_scaled(sample.voc)
               /\ LE16(service_data_voc_co2, 7) = co2_scaled(sample.co2)
          [] app = "combined" ->
               /\ LE16(service_data_combined, 4) = temp_scaled(sample.temp) % 65536
               /\ LE16(service_data_combined, 7) = humidity_scaled(sample.humidity) % 65536
               /\ LE24(service_data_combined, 10) = pressure_scaled(sample.press) % 16777216
               /\ LE16(service_data_combined, 14) = voc_scaled(sample.voc)
               /\ LE16(service_data_combined, 17) = co2_scaled(sample.co2)
          [] app = "simple" ->
               /\ LE16(service_data_temp_hum, 4) = temp_scaled(sample.temp) % 65536
               /\ LE16(service_data_temp_hum, 7) = humidity_scaled(sample.humidity) % 65536
               /\ LE24(service_data_press_gas, 4) =
                    pressure_scaled_simple(sample.press) % 16777216
          [] OTHER -> TRUE

\* C5: pressure.  TwoStage is the formula of the claim, SimpleScale the one
\* the simple loop computes.
TwoStage(v) == (v.val1 \div 100) * 100 + ((v.val1 % 100) + v.val2 \div 1000000) \div 10
SimpleScale(v) == v.val1 * 1000 + v.val2 \div 10000

InPressDomain(v) == v.val1 >= 0 /\ 0 <= v.val2 /\ v.val2 < 1000000

Packed3(buf, off, x) ==
    /\ At(buf, off) = Lo(x)
    /\ At(buf, off + 1) = Hi(x)
    /\ At(buf, off + 2) = Top(x)

\* C5 as claimed: for every pressure reading (i, f) with i >= 0 and
\* 0 <= f < 1000000 every design stores the two-stage value as three bytes low,
\* mid, high, and encoding the same reading again changes no byte.
C5_PressureEveryDesign ==
    (LastEncoded /\ InPressDomain(sample.press)) =>
        CASE app = "three" ->
               /\ Packed3(service_data_press, 4, TwoStage(sample.press))
               /\ EncodePress(service_data_press, sample) = service_data_press
          [] app = "combined" ->
               /\ Packed3(service_data_combined, 10, TwoStage(sample.press))
               /\ EncodeCombined(service_data_combined, sample) = service_data_combined
          [] app = "simple" ->
               /\ Packed3(service_data_press_gas, 4, TwoStage(sample.press))
               /\ EncodePressGas(service_data_press_gas, sample) = service_data_press_gas
          [] OTHER -> TRUE

\* C5 as amended: the three-payload and the combined design store the
\* two-stage value, the simple loop stores i*1000 + f/10000; each as three
\* bytes low, mid, high (the value modulo 2^24), and encoding the same reading
\* again changes no byte.
C5_PressurePerDesign ==
    (LastEncoded /\ InPressDomain(sample.press)) =>
        CASE app = "three" ->
               /\ Packed3(service_data_press, 4, TwoStage(sample.press))
               /\ EncodePress(service_data_press, sample) = service_data_press
          [] app = "combined" ->
               /\ Packed3(service_data_combined, 10, TwoStage(sample.press))
               /\ EncodeCombined(service_data_combined, sample) = service_data_combined
          [] app = "simple" ->
               /\ Packed3(service_data_press_gas, 4, SimpleScale(sample.press))
               /\ EncodePressGas(service_data_press_gas, sample) = service_data_press_gas
          [] OTHER -> TRUE

\* pressure (1013, 250000) in the simple loop: 1013025 = 0x0F7521
C5_Witness ==
    /\ app = "simple"
    /\ LastEncoded
    /\ sample.press = SV(1013, 250000)
    /\ SubSeq(service_data_press_gas, 4, 7) = <<4, 33, 117, 15>>

\* C6: for a CO2 reading (i, f) with 0 <= i <= 65535 and 0 <= f < 1000000 the
\* encoded CO2 value is i.
Co2Field ==
    CASE app = "three" ->
           256 * At(service_data_voc_co2, IDX_CO2_HIGH) + At(service_data_voc_co2, IDX_CO2_LOW)
      [] app = "combined" ->
           256 * At(service_data_combined, IDX_CO2_H) + At(service_data_combined, IDX_CO2_L)

C6_Co2IsIntegerPart ==
    (/\ app \in {"three", "combined"}
     /\ LastEncoded
     /\ 0 <= sample.co2.val1 /\ sample.co2.val1 <= 65535
     /\ 0 <= sample.co2.val2 /\ sample.co2.val2 < 1000000)
        => Co2Field = sample.co2.val1

C6_Witness ==
    /\ app = "combined"
    /\ LastEncoded
    /\ sample.co2 = SV(65535, 999999)
    /\ Co2Field = 65535

\* C7: every payload keeps its length, its service id, its format byte and
\* its tag bytes at their offsets; only value bytes are written.
Header(buf) == SubSeq(buf, 1, 3) = <<210, 252, 64>>

C7_LayoutFixed ==
    CASE app = "three" ->
           /\ Len(service_data_temp_hum) = 9 /\ Header(service_data_temp_hum)
           /\ At(service_data_temp_hum, 3) = 2 /\ At(service_data_temp_hum, 6) = 3
           /\ Len(service_data_press) = 7 /\ Header(service_data_press)
           /\ At(service_data_press, 3) = 4
           /\ Len(service_data_voc_co2) = 9 /\ Header(service_data_voc_co2)
           /\ At(service_data_voc_co2, 3) = 19 /\ At(service_data_voc_co2, 6) = 18
      [] app = "combined" ->
           /\ Len(service_data_combined) = 19 /\ Header(service_data_combined)
           /\ At(service_data_combined, 3) = 2 /\ At(service_data_combined, 6) = 3
           /\ At(service_data_combined, 9) = 4 /\ At(service_data_combined, 13) = 19
           /\ At(service_data_combined, 16) = 18
      [] app = "simple" ->
           /\ Len(service_data_temp_hum) = 9 /\ Header(service_data_temp_hum)
           /\ At(service_data_temp_hum, 3) = 2 /\ At(service_data_temp_hum, 6) = 3
           /\ Len(service_data_press_gas) = 7 /\ Header(service_data_press_gas)
           /\ At(service_data_press_gas, 3) = 4
      [] OTHER -> TRUE

C7_Witness ==
    /\ app = "combined"
    /\ outcome = "encoded"
    /\ sample.press = SV(101325, 999999)
    /\ LE24(service_data_combined, 10) = 101302

\* C8: in every design the advertising data of one packet (flags, complete
\* name, service data) does not exceed the maximum of its channel: 31 bytes
\* for legacy advertising, BT_AD_DATA_LEN_MAX for the combined design.
C8_AdDataFits ==
    CASE app = "three" ->
           /\ AdLen(service_data_temp_hum) <= LEGACY_AD_LEN_MAX
           /\ AdLen(service_data_press) <= LEGACY_AD_LEN_MAX
           /\ AdLen(service_data_voc_co2) <= LEGACY_AD_LEN_MAX
      [] app = "simple" ->
           /\ AdLen(service_data_temp_hum) <= LEGACY_AD_LEN_MAX
           /\ AdLen(service_data_press_gas) <= LEGACY_AD_LEN_MAX
      [] app = "combined" ->
           AdLen(service_data_combined) <= BT_AD_DATA_LEN_MAX
      [] OTHER -> TRUE

\* C9: in the combined design a cycle whose reading has IAQ integer part 0, or
\* a negative CO2 or VOC integer part, writes no payload byte and issues no
\* radio update, the radio keeps the data it held, and the next cycle is
\* scheduled after the fixed delay.
C9_InvalidReadingSkips ==
    [][(/\ app = "combined"
        /\ cycle' # cycle
        /\ fetch_err' = 0
        /\ (sample'.iaq.val1 = 0 \/ sample'.co2.val1 < 0 \/ sample'.voc.val1 < 0))
         => (/\ service_data_combined' = service_data_combined
             /\ live' = live
             /\ nUpd' = 0
             /\ work'.timer = Delay /\ ~work'.queued)]_vars

\* an invalid cycle has just run while the data of an earlier cycle is live
C9_Witness ==
    /\ app = "combined"
    /\ outcome = "invalid"
    /\ sample.iaq.val1 = 0
    /\ live = [slot |-> "combined", data |-> service_data_combined]
    /\ LE16(service_data_combined, 17) = 450
    /\ work.timer = Delay

\* C10: in the time app, from a disconnection of an established connection up
\* to the next connected notification, adv_work is enqueued at most once and
\* executed at most once; once the recycled notification has been delivered
\* it has been enqueued exactly once, and once the queue is empty again it has
\* run exactly once.
C10_OneRestartPerDisconnection ==
    (app = "time" /\ discOpen) =>
        /\ enqSinceDisc <= 1
        /\ runSinceDisc <= enqSinceDisc
        /\ recycle = "none" => enqSinceDisc = 1
        /\ (recycle = "none" /\ ~adv_work.queued) => runSinceDisc = 1

\* the second disconnection of a run, its restart task executed
C10_Witness ==
    /\ app = "time"
    /\ discOpen
    /\ nConn = 2
    /\ enqSinceDisc = 1
    /\ runSinceDisc = 1
    /\ advertising

\* runs of the poll cycle that are pending: one for an armed timeout, one for
\* an item waiting in the queue
PendingRuns ==
    (IF work.timer >= 0 THEN 1 ELSE 0) + (IF work.queued THEN 1 ELSE 0)

\* C11: at every moment at most one run of the poll cycle is pending, also
\* after a handler execution that requested scheduling twice and after the
\* delay expired while the execution was still sleeping; an armed timeout
\* never exceeds the fixed delay.
C11_AtMostOnePending ==
    /\ PendingRuns <= 1
    /\ work.timer <= Delay

\* the three-payload handler has returned from a cycle whose fetch failed: it
\* requested scheduling at entry and at return, and the delay expired while it
\* slept, so the item waits in the queue with no timeout armed
C11_Witness ==
    /\ app = "three"
    /\ outcome = "fetch_failed"
    /\ pc = "idle"
    /\ nUpd = 3
    /\ work.queued
    /\ work.timer = -1
    /\ ~work.running

\* C12: no poll cycle runs, is scheduled or issues a data update unless
\* advertising was started successfully before, and advertising is started
\* only with the initial data already given to the radio.
C12_UpdatesOnlyAfterStart ==
    /\ (nUpd > 0 \/ outcome # "none") => adv_started
    /\ (WorkPending(work) \/ work.running) => adv_started
    /\ live.slot \notin {"none", "temp_hum", "combined"} => adv_started
    /\ adv_started => live # NoLive

\* the combined design has started advertising and published in its second
\* poll cycle
C12_Witness ==
    /\ app = "combined"
    /\ adv_started
    /\ init_ret = [done |-> TRUE, val |-> 0]
    /\ outcome = "encoded"
    /\ cycle = 0
    /\ nUpd = 1
    /\ live = [slot |-> "combined", data |-> service_data_combined]

\* C13: init_sensor returns 0 only when advertising was started and the
\* first poll cycle was scheduled, and a negative error code whenever the
\* sensor is not ready or the radio could not be set up.
C13_InitReturnsZeroOnlyOnSuccess ==
    init_ret.done =>
        /\ init_ret.val <= 0
        /\ (init_ret.val = 0) <=> adv_started
        /\ init_ret.val = 0 => (WorkPending(work) \/ work.running)

\* C14: for every weekday 0 .. 6 of the RTC (0 = Sunday, 1 = Monday, ...,
\* 6 = Saturday) a successful cts_time_read returns a day of week in 1 .. 7,
\* Monday as 1 and Sunday as 7.
C14_MondayIsOne ==
    (cts_ret.op = "read" /\ cts_ret.ret = 0 /\ rtc_tm.tm_wday \in WDays) =>
        /\ cts_ret.time.wday \in 1 .. 7
        /\ cts_ret.time.wday = (IF rtc_tm.tm_wday = 0 THEN 7 ELSE rtc_tm.tm_wday)

\* the members of the CTS format that a write hands to the RTC
DateTime(c) == <<c.year, c.mon, c.mday, c.hours, c.min, c.sec>>

\* C15: when a write succeeded and the clock has not advanced since, a
\* successful read returns the year, month, day of month, hours, minutes and
\* seconds that were written.
C15_WriteReadRoundTrip ==
    (cts_ret.op = "read" /\ cts_ret.ret = 0 /\ written.fresh) =>
        DateTime(cts_ret.time) = DateTime(written.time)

\* 2024-02-29 23:59:59 was written, is held as year 124, month 1, and read back
C15_Witness ==
    /\ cts_ret.op = "read"
    /\ cts_ret.ret = 0
    /\ written = [fresh |-> TRUE, time |-> CtsTime(2024, 2, 29, 23, 59, 59, 4)]
    /\ rtc_tm.tm_year = 124
    /\ rtc_tm.tm_mon = 1
    /\ cts_ret.time.year = 2024
    /\ cts_ret.time.mon = 2

\* steps of the time app, told by what they change
RestartRuns == app = "time" /\ adv_work.queued /\ ~adv_work'.queued
RestartSubmitted == app = "time" /\ ~adv_work.queued /\ adv_work'.queued
ConnCallback == app = "time" /\ (nConn' # nConn \/ (conn = "connected" /\ conn' # conn))

\* C16: in the time app advertising is started only by the restart task on
\* the work queue, never inside the connected or disconnected callback; the
\* task is submitted only by main or by the recycled callback; and a restart
\* that follows a disconnection runs after the disconnected notification and
\* after the connection object was recycled.
C16_RestartOutOfLine ==
    [][/\ ((app = "time" /\ ((advertising' /\ ~advertising) \/ adv_sets' # adv_sets))
            => RestartRuns)
       /\ (ConnCallback => (adv_work' = adv_work /\ adv_sets' = adv_sets
                             /\ ~(advertising' /\ ~advertising)))
       /\ (RestartSubmitted => (pc = "boot" \/ (recycle # "none" /\ recycle' = "none")))
       /\ ((RestartRuns /\ discOpen)
            => (/\ "STATE_DISCONNECTED" \in state
                /\ conn = "none"
                /\ recycle = "none"))]_vars

\* advertising runs again after the first connection was disconnected and
\* its connection object recycled
C16_Witness ==
    /\ app = "time"
    /\ nConn = 1
    /\ discOpen
    /\ "STATE_DISCONNECTED" \in state
    /\ conn = "none"
    /\ recycle = "none"
    /\ runSinceDisc = 1
    /\ ~adv_work.queued
    /\ advertising

\* connectable advertising is on air
OnAir ==
    IF app = "time" THEN advertising ELSE adv_started /\ link = "none"

\* a central was connected and has left
CentralLeft ==
    IF app = "time" THEN discOpen ELSE link = "closed"

\* C17: in the time app and in both sensor-handler designs, once a central
\* that was connected has disconnected, advertising is eventually on air
\* again (in the time app: its restart is eventually executed, whatever the
\* radio then answers).
C17_AdvertisingRestarts ==
    (app \in {"time", "three", "combined"} /\ CentralLeft)
        ~> (OnAir \/ (app = "time" /\ runSinceDisc >= 1))

\* a payload of another slot takes the place of the radio's data
PayloadReplaced == live.slot # "none" /\ live'.slot # live.slot

\* C18: in the three-payload design a payload stays the radio's data for at
\* least the dwell interval before the payload of another slot replaces it.
C18_PayloadDwells ==
    [][(app = "three" /\ PayloadReplaced) => liveAge >= Dwell]_vars

\* the same, for cycles that do not follow a cycle whose fetch failed
C18_DwellsAfterGoodFetch ==
    [][(app = "three" /\ PayloadReplaced /\ ~(pc = "idle" /\ outcome = "fetch_failed"))
         => liveAge >= Dwell]_vars

\* a step of a poll cycle that issues a radio update
UpdateIssued ==
    /\ app \in {"three", "combined", "simple"}
    /\ (cycle' # cycle \/ nUpd' # nUpd)
    /\ nUpd' > 0

\* every payload buffer holds the encoding of the reading in sample
BuffersHold(s) ==
    CASE app = "three" ->
           /\ service_data_temp_hum = EncodeTempHum(service_data_temp_hum, s)
           /\ service_data_press = EncodePress(service_data_press, s)
           /\ service_data_voc_co2 = EncodeVocCo2(service_data_voc_co2, s)
      [] app = "combined" ->
           service_data_combined = EncodeCombined(service_data_combined, s)
      [] app = "simple" ->
           /\ service_data_temp_hum = EncodeTempHum(service_data_temp_hum, s)
           /\ service_data_press_gas = EncodePressGas(service_data_press_gas, s)
      [] OTHER -> TRUE

\* the payload that the n-th update of a cycle hands to the radio
PayloadOf(n) ==
    CASE app = "three" /\ n = 1 -> [slot |-> "temp_hum", data |-> service_data_temp_hum]
      [] app = "three" /\ n = 2 -> [slot |-> "press", data |-> service_data_press]
      [] app = "three" /\ n = 3 -> [slot |-> "voc_co2", data |-> service_data_voc_co2]
      [] app = "simple" /\ n = 1 -> [slot |-> "temp_hum", data |-> service_data_temp_hum]
      [] app = "simple" /\ n = 2 -> [slot |-> "press_gas", data |-> service_data_press_gas]
      [] app = "combined" /\ n = 1 -> [slot |-> "combined", data |-> service_data_combined]
      [] OTHER -> NoLive

\* the order the code keeps in every cycle: when an update is issued the
\* buffers already hold the encoding of the channel values read in this
\* cycle, and the updates come in the order of the payloads
UpdateInOrder ==
    /\ BuffersHold(sample)'
    /\ adv_err' = 0 => live' = PayloadOf(nUpd)'

\* C19: every cycle that issues a radio update has fetched successfully, the
\* channel values were read and all payload bytes written before the update,
\* and the updates come in the order temperature/humidity, pressure, VOC/CO2.
C19_PublishAfterFetch ==
    [][UpdateIssued => (fetch_err' = 0 /\ UpdateInOrder)]_vars

\* the same order, whatever the fetch returned
C19_OrderWithinCycle ==
    [][UpdateIssued => UpdateInOrder]_vars

\* C20: a radio update that fails changes neither the radio's data nor the
\* payload buffers, which hold the encoding of this cycle's reading; the
\* handler goes on, so that at its return all updates of the cycle were
\* attempted and the next cycle is pending; and an update that succeeds hands
\* the radio the buffer as it is then.
C20_UpdateFailureNotFatal ==
    /\ [][UpdateIssued =>
            /\ (adv_err' # 0 => (live' = live /\ BuffersHold(sample)'))
            /\ (adv_err' = 0 => live' = PayloadOf(nUpd)')
            /\ (app = "three" => pc' = (IF nUpd' = 1 THEN "sleep1"
                                         ELSE IF nUpd' = 2 THEN "sleep2" ELSE "idle"))
            /\ ((app = "three" /\ pc' = "idle") =>
                    (nUpd' = 3 /\ WorkPending(work') /\ ~work'.running))
            /\ (app = "combined" => (WorkPending(work') /\ ~work'.running))]_vars

\* the three-payload handler has returned from a cycle whose second and
\* third update failed: the radio still holds the first payload, the buffers
\* hold this cycle's reading and the next cycle is scheduled
C20_Witness ==
    /\ app = "three"
    /\ pc = "idle"
    /\ outcome = "encoded"
    /\ nUpd = 3
    /\ adv_err # 0
    /\ live = [slot |-> "temp_hum", data |-> service_data_temp_hum]
    /\ sample.temp = SV(22, 500000)
    /\ SubSeq(service_data_temp_hum, 5, 6) = <<202, 8>>
    /\ work.timer = Delay

\* an execution of the poll-cycle handler is in progress
InExecution == app = "three" /\ pc \in {"sleep1", "sleep2"}

\* C21: executions of the poll-cycle handler never overlap: an execution
\* starts only when none is in progress, also when the item was queued again
\* while the previous execution slept; a radio update issued while an
\* execution is in progress is issued by that execution; and the payload
\* buffers are written only by the step that starts a poll cycle.
C21_ExecutionsNeverOverlap ==
    /\ [][/\ (cycle' # cycle => (~InExecution /\ ~work.running))
           /\ ((InExecution /\ nUpd' # nUpd) => (cycle' = cycle /\ nUpd' = nUpd + 1))
           /\ (Buffers' # Buffers => cycle' # cycle)]_vars
    /\ [](work.running <=> InExecution)

\* the delay has expired and queued the item while the execution that
\* armed it is still in its second sleep
C21_Witness ==
    /\ app = "three"
    /\ pc = "sleep2"
    /\ sleepLeft > 0
    /\ work.running
    /\ work.queued
    /\ nUpd = 2

\* C22: when the sensor is not ready, init_sensor (called with Bluetooth
\* enabled) starts no advertising and no poll cycle is ever scheduled or run;
\* when the clock of the time app is not ready, Bluetooth is never enabled and
\* the advertising task is never submitted or run.
C22_NotReadyDisablesSubsystem ==
    /\ (app \in {"three", "combined"} /\ dev_ready = "not_ready") =>
          /\ bt_enabled
          /\ init_ret = [done |-> TRUE, val |-> -ENODEV]
          /\ ~adv_started
          /\ live = NoLive
          /\ work = IdleWork
          /\ outcome = "none" /\ nUpd = 0
    /\ (app = "time" /\ dev_ready = "not_ready") =>
          /\ ~bt_enabled
          /\ ~adv_work.queued
          /\ ~advertising /\ adv_sets = 0
          /\ pc = "halt"

\* the combined design has booted with Bluetooth enabled and a sensor that
\* is not ready
C22_Witness ==
    /\ app = "combined"
    /\ pc = "idle"
    /\ dev_ready = "not_ready"
    /\ bt_enabled
    /\ init_ret.done
    /\ init_ret.val = -ENODEV

\* C23: a cts_time_read whose rtc_get_time failed returns that negative
\* error code and leaves the caller's structure as it was before the call.
C23_ReadFailureLeavesStruct ==
    [][(cts_ret'.op = "read" /\ cts_ret'.dev < 0) =>
          /\ cts_ret'.ret = cts_ret'.dev
          /\ cts_ret'.time = cts_ret.time]_vars

\* a read has failed with -ENODATA on a structure that still holds
\* 2024-02-29 23:59:59
C23_Witness ==
    /\ cts_ret.op = "read"
    /\ cts_ret.dev = -61
    /\ cts_ret.ret = -61
    /\ cts_ret.time = CtsTime(2024, 2, 29, 23, 59, 59, 4)

\* C24: whatever the reading, each two-byte field holds its scaled value
\* modulo 2^16 and the pressure field its scaled value modulo 2^24 (a value
\* that does not fit wraps, it is not clamped), and every byte outside the
\* value offsets is the byte of construction.
Scaled100(v) == v.val1 * 100 + CDiv(v.val2, 10000)
Co2Value(v) == v.val1 + CDiv(v.val2, 1000000)

RestKept(buf, init, offs) ==
    /\ Len(buf) = Len(init)
    /\ \A i \in 0..(Len(init) - 1) : i \notin offs => At(buf, i) = At(init, i)

C24_OverflowWraps ==
    LastEncoded =>
        CASE app = "three" ->
               /\ LE16(service_data_temp_hum, 4) = Scaled100(sample.temp) % 65536
               /\ LE16(service_data_temp_hum, 7) = Scaled100(sample.humidity) % 65536
               /\ LE24(service_data_press, 4) = pressure_scaled(sample.press) % 16777216
               /\ LE16(service_data_voc_co2, 4) = Scaled100(sample.voc) % 65536
               /\ Co2Field = Co2Value(sample.co2) % 65536
               /\ RestKept(service_data_temp_hum, Init_temp_hum, {4, 5, 7, 8})
               /\ RestKept(service_data_press, Init_press, {4, 5, 6})
               /\ RestKept(service_data_voc_co2, Init_voc_co2, {4, 5, 7, 8})
          [] app = "combined" ->
               /\ LE16(service_data_combined, 4) = Scaled100(sample.temp) % 65536
               /\ LE16(service_data_combined, 7) = Scaled100(sample.humidity) % 65536
               /\ LE24(service_data_combined, 10) = pressure_scaled(sample.press) % 16777216
               /\ LE16(service_data_combined, 14) = Scaled100(sample.voc) % 65536
               /\ Co2Field = Co2Value(sample.co2) % 65536
               /\ RestKept(service_data_combined, Init_combined,
                           {4, 5, 7, 8, 10, 11, 12, 14, 15, 17, 18})
          [] app = "simple" ->
               /\ LE16(service_data_temp_hum, 4) = Scaled100(sample.temp) % 65536
               /\ LE16(service_data_temp_hum, 7) = Scaled100(sample.humidity) % 65536
               /\ LE24(service_data_press_gas, 4) =
                    pressure_scaled_simple(sample.press) % 16777216
               /\ RestKept(service_data_temp_hum, Init_simple_temp_hum, {4, 5, 7, 8})
               /\ RestKept(service_data_press_gas, Init_simple_press_gas, {4, 5, 6})
          [] OTHER -> TRUE

\* VOC (656, 0): 65600 does not fit 16 bits, the field holds 65600 - 65536
C24_Witness ==
    /\ app = "combined"
    /\ outcome = "encoded"
    /\ sample.voc = SV(656, 0)
    /\ At(service_data_combined, IDX_VOC_L) = 64
    /\ At(service_data_combined, IDX_VOC_H) = 0

\* C25: in the time app STATE_CONNECTED and STATE_DISCONNECTED are never both
\* set: STATE_CONNECTED is set exactly while a connection is established and
\* STATE_DISCONNECTED is not set during a connection.
C25_StateBitsExclusive ==
    app = "time" =>
        /\ ~({"STATE_CONNECTED", "STATE_DISCONNECTED"} \subseteq state)
        /\ ("STATE_CONNECTED" \in state) <=> (conn = "connected")

\* C26: in the extended-advertising variant of the time app at most one
\* advertising set exists, whatever the number of connections and of
\* executions of the advertising task.
C26_AtMostOneAdvSet ==
    (app = "time" /\ ext_adv) => adv_sets <= 1

=============================================================================
